---- MODULE Spec2Model ----
(***************************************************************************)
(* DETERMINATION: a Discord bot whose command handlers share one           *)
(* RateLimiter (src/DETERMINATION.py).  The model covers the limiter, the  *)
(* four limiter-gated handlers (tarot, yesno, diceroll, the tarot          *)
(* follow-up modal) cut into the segments the event loop runs atomically   *)
(* (the code between two awaits), the dice-notation validation and         *)
(* ask_gemini.  The module-level limiter is RateLimiter(10, 499); the      *)
(* limits are drawn from small ranges here.                                *)
(***************************************************************************)
EXTENDS Integers, Sequences, FiniteSets, Bags, TLC

\* ------------------------------------------------------------------ bounds
MaxInvocations == 3   \* command invocations in one behaviour
MaxTicks == 2         \* clock advances in one behaviour
MaxRpm == 2           \* rpm_limit is drawn from 1..MaxRpm
MaxDaily == 3         \* daily_limit is drawn from 1..MaxDaily

\* ------------------------------------------------------- program constants
MinuteWindow == 60          \* check(): current_time - requests_minute[0] > 60
DayWindow == 86400          \* check(): current_time - requests_day[0] > 86400
MinDice == 1                \* diceroll: 1 <= num_dice
MaxDice == 100              \* diceroll: num_dice <= 100
MinSides == 2               \* diceroll: 2 <= num_sides
MaxSides == 1000            \* diceroll: num_sides <= 1000

\* The messages, transliterated to ASCII.
MinuteMsg == "Bot dang ban suy nghi! Vui long thu lai sau mot phut."
DayMsg == "Hom nay bot da dung het nang luong roi. Hen gap lai ban vao ngay mai nhe!"
BlockedMsg == "Rat tiec, toi khong the tao phan hoi. Co the noi dung da bi chan vi ly do an toan."
ErrorMsg == "Xin loi, co mot loi nho da xay ra khi toi dang ket noi voi vu tru: <e>"
FormatMsg == "Dinh dang khong dung! Hay dung NdN (vi du: 2d6, 1d20)."
RangeMsg == "So luong xuc xac (1-100) hoac so mat (2-1000) khong hop le."
GeneratedText == "<generated text>"

\* time.time() only moves forward.  Elapsed is what it can have advanced by
\* since the gate before when a gate reads it; check() and record_request()
\* of one gate run back to back and read the same time.
Elapsed == {0, 1, MinuteWindow, DayWindow}

VARIABLES
    rpm_limit,        \* RateLimiter.rpm_limit
    daily_limit,      \* RateLimiter.daily_limit
    requests_minute,  \* RateLimiter.requests_minute (deque, oldest first)
    requests_day,     \* RateLimiter.requests_day (deque, oldest first)
    now,              \* the last reading of time.time()
    ticks,            \* readings that found the clock advanced
    dispatched,       \* invocations the framework has dispatched so far
    tasks,            \* the bag of suspended handler coroutines
    view_sent,        \* a TarotInquiryView has been sent to a user
    last,             \* what the handler segment run in the last step did
    accepted_log      \* every timestamp record_request() ever appended

vars == <<rpm_limit, daily_limit, requests_minute, requests_day, now, ticks,
          dispatched, tasks, view_sent, last, accepted_log>>

config_vars == <<rpm_limit, daily_limit>>
limiter_vars == <<requests_minute, requests_day, accepted_log>>
clock_vars == <<now, ticks>>

\* --------------------------------------------------------------- RateLimiter

\* Purge with `>=` for `>`: an entry exactly one window old is dropped.
RECURSIVE PurgeAtBoundary(_, _, _)
PurgeAtBoundary(q, current_time, window) ==
    IF q # <<>> /\ current_time - Head(q) >= window
    THEN PurgeAtBoundary(Tail(q), current_time, window)
    ELSE q

\* Purge with the subtraction reversed: nothing is ever old enough.
RECURSIVE PurgeReversed(_, _, _)
PurgeReversed(q, current_time, window) ==
    IF q # <<>> /\ Head(q) - current_time > window
    THEN PurgeReversed(Tail(q), current_time, window)
    ELSE q

\* Purge with `if` for `while`: at most one entry is dropped per check().
PurgeOnce(q, current_time, window) ==
    IF q # <<>> /\ current_time - Head(q) > window THEN Tail(q) ELSE q

\* The purge loop of check(): pop from the left while the front is too old.
RECURSIVE Purge(_, _, _)
Purge(q, current_time, window) ==
    IF q # <<>> /\ current_time - Head(q) > window
    THEN Purge(Tail(q), current_time, window)
    ELSE q

\* check() with the two limit tests in the other order.
CheckDayFirst(current_time, rm, rd, rpm, daily) ==
    LET m == Purge(rm, current_time, MinuteWindow)
        d == Purge(rd, current_time, DayWindow)
    IN  IF Len(d) >= daily
        THEN [minute |-> m, day |-> d, is_limited |-> TRUE, msg |-> DayMsg]
        ELSE IF Len(m) >= rpm
        THEN [minute |-> m, day |-> d, is_limited |-> TRUE, msg |-> MinuteMsg]
        ELSE [minute |-> m, day |-> d, is_limited |-> FALSE, msg |-> ""]

\* check() with `>` for `>=` in both limit tests.
CheckOffByOne(current_time, rm, rd, rpm, daily) ==
    LET m == Purge(rm, current_time, MinuteWindow)
        d == Purge(rd, current_time, DayWindow)
    IN  IF Len(m) > rpm
        THEN [minute |-> m, day |-> d, is_limited |-> TRUE, msg |-> MinuteMsg]
        ELSE IF Len(d) > daily
        THEN [minute |-> m, day |-> d, is_limited |-> TRUE, msg |-> DayMsg]
        ELSE [minute |-> m, day |-> d, is_limited |-> FALSE, msg |-> ""]

\* check() without the daily test.
CheckMinuteOnly(current_time, rm, rd, rpm, daily) ==
    LET m == Purge(rm, current_time, MinuteWindow)
        d == Purge(rd, current_time, DayWindow)
    IN  IF Len(m) >= rpm
        THEN [minute |-> m, day |-> d, is_limited |-> TRUE, msg |-> MinuteMsg]
        ELSE [minute |-> m, day |-> d, is_limited |-> FALSE, msg |-> ""]

\* RateLimiter.check(): the purged deques and (is_limited, message).
Check(current_time, rm, rd, rpm, daily) ==
    LET m == Purge(rm, current_time, MinuteWindow)
        d == Purge(rd, current_time, DayWindow)
    IN  IF Len(m) >= rpm
        THEN [minute |-> m, day |-> d, is_limited |-> TRUE, msg |-> MinuteMsg]
        ELSE IF Len(d) >= daily
        THEN [minute |-> m, day |-> d, is_limited |-> TRUE, msg |-> DayMsg]
        ELSE [minute |-> m, day |-> d, is_limited |-> FALSE, msg |-> ""]

\* RateLimiter.record_request(): append the current time to both deques.
RecordRequest(current_time, rm, rd) ==
    [minute |-> Append(rm, current_time), day |-> Append(rd, current_time)]

\* ---------------------------------------------------------------- ask_gemini

\* What the try block of ask_gemini can meet: an exception (from
\* generate_content or from the response.text accessor), a response without
\* candidates, or a response with candidates whose text is non-empty or empty.
GenerationOutcomes == {"raises", "no_candidates", "text", "empty_text"}

ask_gemini(response) ==
    CASE response = "raises" -> ErrorMsg
      [] response = "no_candidates" -> BlockedMsg
      [] response = "text" -> GeneratedText
      [] response = "empty_text" -> ""

\* ------------------------------------------------------------ dice notation

Digits == {"0", "1", "2", "3", "4", "5", "6", "7", "8", "9"}

DigitValue(c) ==
    CASE c = "0" -> 0 [] c = "1" -> 1 [] c = "2" -> 2 [] c = "3" -> 3
      [] c = "4" -> 4 [] c = "5" -> 5 [] c = "6" -> 6 [] c = "7" -> 7
      [] c = "8" -> 8 [] c = "9" -> 9

\* str.lower() on the characters the inputs use.
LowerChar(c) ==
    CASE c = "D" -> "d" [] c = "X" -> "x" [] c = "A" -> "a"
      [] c = "B" -> "b" [] c = "C" -> "c" [] OTHER -> c

Lower(s) == [i \in 1..Len(s) |-> LowerChar(s[i])]

\* int() of a string of digits.
RECURSIVE ToInt(_)
ToInt(s) ==
    IF s = <<>> THEN 0
    ELSE 10 * ToInt(SubSeq(s, 1, Len(s) - 1)) + DigitValue(s[Len(s)])

\* re.fullmatch(r'(\d+)d(\d+)', s): the position of the separating "d", 0 for
\* no match.  A digit is never "d", so the position is unique.
MatchAt(s) ==
    LET hits == {i \in 2..(Len(s) - 1) :
                    /\ s[i] = "d"
                    /\ \A j \in 1..(i - 1) : s[j] \in Digits
                    /\ \A j \in (i + 1)..Len(s) : s[j] \in Digits}
    IN  IF hits = {} THEN 0 ELSE CHOOSE i \in hits : TRUE

\* diceroll's validation: "format", "range" or "valid".
ValidateDice(dice) ==
    LET s == Lower(dice)
        i == MatchAt(s)
    IN  IF i = 0 THEN "format"
        ELSE LET num_dice == ToInt(SubSeq(s, 1, i - 1))
                 num_sides == ToInt(SubSeq(s, i + 1, Len(s)))
             IN  IF ~(MinDice <= num_dice /\ num_dice <= MaxDice
                       /\ MinSides <= num_sides /\ num_sides <= MaxSides)
                 THEN "range"
                 ELSE "valid"

\* The dice arguments users send.
DiceInputs ==
    { <<"2", "d", "6">>, <<"1", "d", "2", "0">>, <<"2", "D", "6">>,
      <<"1", "0", "0", "d", "1", "0", "0", "0">>,
      <<"0", "d", "6">>, <<"1", "0", "1", "d", "6">>, <<"2", "d", "1">>,
      <<"2", "d", "1", "0", "0", "1">>, <<"a", "b", "c">>,
      <<"2", "x", "d", "6">>, <<"d", "6">>, <<"2", "d">>, <<>> }

\* What validation makes of them.
DiceVerdicts == {ValidateDice(dice) : dice \in DiceInputs}

\* ------------------------------------------------------------------- state

\* A handler coroutine: its command, where it is suspended, and how often it
\* has called limiter.check(), limiter.record_request() and ask_gemini().
NewTask(k) == [kind |-> k, pc |-> "start", nchk |-> 0, nrec |-> 0, ngen |-> 0]

\* What one handler segment did: the gate's result ("none" when the segment
\* holds no gate, "format" or "range" when validation rejected the input),
\* the clock reading check() used (-1 without a check), the rejection message
\* it sent, the generation response it met and the text ask_gemini returned
\* ("none" without a call), and whether the handler returned.
Event(t, gate, at, reply, response, finished) ==
    [kind |-> t.kind, nchk |-> t.nchk, nrec |-> t.nrec, ngen |-> t.ngen,
     gate |-> gate, at |-> at, reply |-> reply, response |-> response,
     result |-> IF response = "none" THEN "none" ELSE ask_gemini(response),
     finished |-> finished]

NoEvent == Event(NewTask("none"), "none", -1, "", "none", FALSE)

Init ==
    /\ rpm_limit \in 1..MaxRpm
    /\ daily_limit \in 1..MaxDaily
    /\ requests_minute = <<>>
    /\ requests_day = <<>>
    /\ now = 0
    /\ ticks = 0
    /\ dispatched = 0
    /\ tasks = EmptyBag
    /\ view_sent = FALSE
    /\ last = NoEvent
    /\ accepted_log = <<>>

\* The gate with record_request() called before is_limited is tested.
GateOutcomeRecordFirst(t, time, rm, rd, rpm, daily) ==
    LET c == Check(time, rm, rd, rpm, daily)
        r == RecordRequest(time, c.minute, c.day)
    IN  [minute |-> r.minute, day |-> r.day, recorded |-> <<time>>,
         time |-> time, is_limited |-> c.is_limited,
         msg |-> c.msg, task |-> [t EXCEPT !.nchk = @ + 1, !.nrec = @ + 1]]

\* The gate with record_request() moved behind the await that follows it: the
\* coroutine suspends having passed check() and recorded nothing.
GateOutcomeRacy(t, time, rm, rd, rpm, daily) ==
    LET c == Check(time, rm, rd, rpm, daily)
    IN  [minute |-> c.minute, day |-> c.day, recorded |-> <<>>,
         time |-> time, is_limited |-> c.is_limited,
         msg |-> c.msg, task |-> [t EXCEPT !.nchk = @ + 1]]

\* The gate with record_request() called twice.
GateOutcomeDoubleRecord(t, time, rm, rd, rpm, daily) ==
    LET c == Check(time, rm, rd, rpm, daily)
        r == RecordRequest(time, c.minute, c.day)
        r2 == RecordRequest(time, r.minute, r.day)
    IN  IF c.is_limited
        THEN [minute |-> c.minute, day |-> c.day, recorded |-> <<>>,
              time |-> time, is_limited |-> TRUE, msg |-> c.msg,
              task |-> [t EXCEPT !.nchk = @ + 1]]
        ELSE [minute |-> r2.minute, day |-> r2.day,
              recorded |-> <<time, time>>,
              time |-> time, is_limited |-> FALSE, msg |-> c.msg,
              task |-> [t EXCEPT !.nchk = @ + 1, !.nrec = @ + 2]]

\* The gate every limited handler runs, with no await inside:
\*     is_limited, msg = limiter.check()
\*     if is_limited: await <reply>(msg, ephemeral=True); return
\*     limiter.record_request()
\* for coroutine t at clock reading time: the limiter's deques, the clock and
\* the coroutine afterwards.
GateOutcome(t, time, rm, rd, rpm, daily) ==
    LET c == Check(time, rm, rd, rpm, daily)
        r == RecordRequest(time, c.minute, c.day)
    IN  IF c.is_limited
        THEN [minute |-> c.minute, day |-> c.day, recorded |-> <<>>,
              time |-> time, is_limited |-> TRUE, msg |-> c.msg,
              task |-> [t EXCEPT !.nchk = @ + 1]]
        ELSE [minute |-> r.minute, day |-> r.day, recorded |-> <<time>>,
              time |-> time, is_limited |-> FALSE, msg |-> c.msg,
              task |-> [t EXCEPT !.nchk = @ + 1, !.nrec = @ + 1]]

\* The gate's effect on the limiter and the clock; g is GateOutcome's value.
ApplyGate(g) ==
    /\ requests_minute' = g.minute
    /\ requests_day' = g.day
    /\ accepted_log' = accepted_log \o g.recorded
    /\ now' = g.time
    /\ ticks' = IF g.time # now THEN ticks + 1 ELSE ticks
    /\ ticks' <= MaxTicks

GateName(g) ==
    IF ~g.is_limited THEN "ok" ELSE IF g.msg = MinuteMsg THEN "minute" ELSE "day"

\* presentation = await ask_gemini(prompt), then the send: generate_content is
\* a blocking call, so the coroutine does not suspend before the send.
Generated(t) == [t EXCEPT !.ngen = @ + 1]

\* The framework dispatches one more interaction to its handler.
Dispatch ==
    /\ dispatched < MaxInvocations
    /\ dispatched' = dispatched + 1

\* A slash command from its gate up to `await ctx.defer()`.
Gated(k) ==
    \E elapsed \in Elapsed :
       LET g == GateOutcome(NewTask(k), now + elapsed, requests_minute, requests_day,
                            rpm_limit, daily_limit)
       IN  /\ ApplyGate(g)
           /\ IF g.is_limited
              THEN /\ tasks' = tasks
                   /\ last' = Event(g.task, GateName(g), g.time, g.msg, "none", TRUE)
              ELSE /\ tasks' = tasks (+) SetToBag({[g.task EXCEPT !.pc = "defer"]})
                   /\ last' = Event(g.task, GateName(g), g.time, "", "none", FALSE)

\* /tarot up to `await ctx.defer()`.
Tarot ==
    /\ Dispatch
    /\ Gated("tarot")
    /\ UNCHANGED <<config_vars, view_sent>>

\* /yesno up to `await ctx.defer()`.
Yesno ==
    /\ Dispatch
    /\ Gated("yesno")
    /\ UNCHANGED <<config_vars, view_sent>>

\* /diceroll: validation first (reply and return on a bad argument), then
\* the gate, up to `await ctx.defer()`.
Diceroll ==
    /\ Dispatch
    /\ \E verdict \in DiceVerdicts :
          IF verdict = "valid"
          THEN Gated("diceroll")
          ELSE /\ last' = Event(NewTask("diceroll"), verdict, -1,
                                IF verdict = "format" THEN FormatMsg ELSE RangeMsg,
                                "none", TRUE)
               /\ UNCHANGED <<limiter_vars, clock_vars, tasks>>
    /\ UNCHANGED <<config_vars, view_sent>>

\* A command resumes after `await ctx.defer()`: prompt, ask_gemini, send (for
\* /tarot with the TarotInquiryView attached, for /yesno followed by the
\* reaction).
Resume ==
    \E t \in BagToSet(tasks) :
       /\ t.pc = "defer"
       /\ tasks' = tasks (-) SetToBag({t})
       /\ \E response \in GenerationOutcomes :
             last' = Event(Generated(t), "none", -1, "", response, TRUE)
       /\ view_sent' = (view_sent \/ t.kind = "tarot")
       /\ UNCHANGED <<config_vars, limiter_vars, clock_vars, dispatched>>

\* The button of a sent TarotInquiryView opens the modal; submitting it runs
\* TarotInquiryModal.callback up to `await interaction.response.defer()`.
ModalSubmit ==
    /\ view_sent
    /\ Dispatch
    /\ tasks' = tasks (+) SetToBag({[NewTask("modal") EXCEPT !.pc = "modal_defer"]})
    /\ last' = Event(NewTask("modal"), "none", -1, "", "none", FALSE)
    /\ UNCHANGED <<config_vars, limiter_vars, clock_vars, view_sent>>

\* The callback after its defer: gate, prompt, ask_gemini, send, with no
\* await before the send.
ModalCallback ==
    \E t \in BagToSet(tasks) :
       /\ t.pc = "modal_defer"
       /\ tasks' = tasks (-) SetToBag({t})
       /\ \E elapsed \in Elapsed :
             LET g == GateOutcome(t, now + elapsed, requests_minute, requests_day,
                                  rpm_limit, daily_limit)
             IN  /\ ApplyGate(g)
                 /\ IF g.is_limited
                    THEN last' = Event(g.task, GateName(g), g.time, g.msg, "none", TRUE)
                    ELSE \E response \in GenerationOutcomes :
                            last' = Event(Generated(g.task), GateName(g), g.time,
                                          "", response, TRUE)
       /\ UNCHANGED <<config_vars, dispatched, view_sent>>

Next ==
    \/ Tarot
    \/ Yesno
    \/ Diceroll
    \/ Resume
    \/ ModalSubmit
    \/ ModalCallback

Spec == Init /\ [][Next]_vars

\* ------------------------------------------------------------------ helpers

Gates == {"minute", "day", "ok"}
Rejections == {"format", "range", "minute", "day"}

\* The entries of q that are at most window old at time t.
Within(q, t, window) == SelectSeq(q, LAMBDA x : t - x <= window)

\* s is q with entries dropped from the front and nothing added.
IsSuffix(s, q) == \E k \in 0..Len(q) : s = SubSeq(q, k + 1, Len(q))

\* The coroutines suspended after a check() that passed and before the
\* record_request() that belongs to it.
InFlightUnrecorded == {t \in BagToSet(tasks) : t.nchk > t.nrec}

\* ------------------------------------------------------------------- claims

\* C1: check() purges every entry older than its window from each deque and
\* decides on what is left: per-minute message when the minute window holds
\* rpm_limit entries or more (also when the day window is full too),
\* otherwise per-day message when the day window holds daily_limit or more,
\* otherwise (False, "").
C1_CheckDecides ==
    [][ last'.gate \in Gates =>
          LET m == Within(requests_minute, last'.at, MinuteWindow)
              d == Within(requests_day, last'.at, DayWindow)
          IN  /\ last'.gate = IF Len(m) >= rpm_limit THEN "minute"
                              ELSE IF Len(d) >= daily_limit THEN "day" ELSE "ok"
              /\ last'.gate = "minute" => last'.reply = MinuteMsg
              /\ last'.gate = "day" => last'.reply = DayMsg
              /\ last'.gate = "ok" => last'.reply = ""
              /\ last'.gate # "ok" => requests_minute' = m /\ requests_day' = d
              /\ last'.gate = "ok" =>
                    /\ requests_minute' = Append(m, now')
                    /\ requests_day' = Append(d, now') ]_vars

\* C1's case: both limits are reached and the per-minute message is returned.
C1_Witness ==
    /\ last.gate = "minute"
    /\ last.reply = MinuteMsg
    /\ Len(requests_day) >= daily_limit

\* C2: once rpm_limit accepted requests lie in one 60-second span, every
\* further check() in that span is limited with the per-minute message.
C2_LimitedWithinSpan ==
    [][ ( /\ last'.gate \in Gates
          /\ Len(Within(accepted_log, last'.at, MinuteWindow)) >= rpm_limit )
        => last'.gate = "minute" /\ last'.reply = MinuteMsg ]_vars

\* C2's case: rpm_limit = 2 with the daily limit out of reach, three cycles
\* back to back: accepted, accepted, limited.
C2_Witness ==
    /\ rpm_limit = 2
    /\ daily_limit = 3
    /\ accepted_log = <<0, 0>>
    /\ dispatched = 3
    /\ last.gate = "minute"
    /\ last.at = 0

\* The rpm_limit requests accepted last made the limiter per-minute limited:
\* they lie within one window of each other.
LastGroupLimits ==
    /\ Len(accepted_log) >= rpm_limit
    /\ accepted_log[Len(accepted_log)]
          - accepted_log[Len(accepted_log) - rpm_limit + 1] <= MinuteWindow

EarliestOfLastGroup == accepted_log[Len(accepted_log) - rpm_limit + 1]

\* C3 as stated: a check() made 60 seconds or more after the earliest of the
\* rpm_limit requests that limited the limiter is not limited, the daily limit
\* not being reached.
C3_Original ==
    [][ ( /\ last'.gate \in Gates
          /\ LastGroupLimits
          /\ last'.at - EarliestOfLastGroup >= MinuteWindow
          /\ Len(Within(accepted_log, last'.at, DayWindow)) < daily_limit )
        => last'.gate = "ok" ]_vars

\* C3 amended: more than 60 seconds after the earliest of them.
C3_Amended ==
    [][ ( /\ last'.gate \in Gates
          /\ LastGroupLimits
          /\ last'.at - EarliestOfLastGroup > MinuteWindow
          /\ Len(Within(accepted_log, last'.at, DayWindow)) < daily_limit )
        => last'.gate = "ok" ]_vars

\* C3's case: a request accepted 61 seconds after the earliest of the
\* rpm_limit requests that had filled the minute window.
C3_Witness ==
    /\ last.gate = "ok"
    /\ Len(accepted_log) > rpm_limit
    /\ accepted_log[Len(accepted_log) - 1]
          - accepted_log[Len(accepted_log) - rpm_limit] <= MinuteWindow
    /\ last.at - accepted_log[Len(accepted_log) - rpm_limit] = MinuteWindow + 1

\* C4: once daily_limit requests were accepted in the trailing 86400 seconds,
\* check() is limited whatever the minute window holds, with the per-day
\* message when the minute window is not full.
C4_DailyLimit ==
    [][ ( /\ last'.gate \in Gates
          /\ Len(Within(accepted_log, last'.at, DayWindow)) >= daily_limit )
        => /\ last'.gate \in {"minute", "day"}
           /\ Len(Within(accepted_log, last'.at, MinuteWindow)) < rpm_limit
                 => last'.gate = "day" /\ last'.reply = DayMsg ]_vars

\* C4's case: the minute window is empty and the oldest request of the day
\* window is a full 86400 seconds old, so from another calendar day.
C4_Witness ==
    /\ last.gate = "day"
    /\ requests_minute = <<>>
    /\ Len(requests_day) = daily_limit
    /\ last.at - Head(requests_day) = DayWindow

\* C5: check() calls made earlier change nothing for a later one: a check at
\* t2 gives the same result and leaves the same deques whether or not a check
\* at t1 <= t2 came before it, and the same as on the log of all accepted
\* requests, which no check ever purged.
C5_CheckIdempotent ==
    \A e2 \in Elapsed :
       LET t2 == now + e2
           alone == Check(t2, requests_minute, requests_day, rpm_limit, daily_limit)
           unpurged == Check(t2, accepted_log, accepted_log, rpm_limit, daily_limit)
       IN  /\ unpurged = alone
           /\ \A e1 \in {e \in Elapsed : e <= e2} :
                 LET first == Check(now + e1, requests_minute, requests_day,
                                    rpm_limit, daily_limit)
                 IN  Check(t2, first.minute, first.day, rpm_limit, daily_limit) = alone

\* C5's case: a check() found the limiter limited, so no request was recorded
\* after it, and earlier checks have purged entries from both deques.
C5_Witness ==
    /\ last.gate \in {"minute", "day"}
    /\ Len(requests_minute) < Len(accepted_log)
    /\ Len(requests_day) < Len(accepted_log)

\* C6: a rejected invocation consumes no slot.  Failed validation returns
\* before check(); a limited check() makes the handler send the limiter's
\* message and return.  Either way nothing is appended to a deque and
\* ask_gemini is not called.
C6_RejectedConsumesNothing ==
    [][ last'.gate \in Rejections =>
          /\ last'.finished
          /\ BagCardinality(tasks') <= BagCardinality(tasks)
          /\ accepted_log' = accepted_log
          /\ IsSuffix(requests_minute', requests_minute)
          /\ IsSuffix(requests_day', requests_day)
          /\ last'.nrec = 0 /\ last'.ngen = 0 /\ last'.response = "none"
          /\ last'.gate \in {"format", "range"} =>
                /\ last'.nchk = 0
                /\ UNCHANGED <<requests_minute, requests_day, now>>
                /\ last'.reply \in {FormatMsg, RangeMsg}
          /\ last'.gate \in {"minute", "day"} =>
                /\ last'.nchk = 1
                /\ last'.reply = Check(last'.at, requests_minute, requests_day,
                                       rpm_limit, daily_limit).msg ]_vars

\* C6's case: the follow-up modal is rejected by the limiter while the minute
\* window is full.
C6_Witness ==
    /\ last.kind = "modal"
    /\ last.gate = "minute"
    /\ last.finished
    /\ Len(requests_minute) = rpm_limit

\* C7: ask_gemini never returns an empty reply; a response that is blocked or
\* empty gives the fixed "content may have been blocked" message, an error
\* the apology.
C7_NeverEmptyReply ==
    last.response # "none" =>
       /\ last.result # ""
       /\ last.response \in {"no_candidates", "empty_text"} => last.result = BlockedMsg
       /\ last.response = "raises" => last.result = ErrorMsg

C10_WithinLimits ==
    /\ Len(requests_minute) <= rpm_limit
    /\ Len(requests_day) <= daily_limit

\* C10's case: both deques are full while two handlers are in flight.
C10_Witness ==
    /\ BagCardinality(tasks) >= 2
    /\ Len(requests_minute) = rpm_limit
    /\ Len(requests_day) = daily_limit
    /\ rpm_limit >= 2

====
